---------------------------- MODULE Spec2Model ----------------------------
(***************************************************************************)
(* Model of scripts/sync_zenodo.py: the sync orchestrator (main), the      *)
(* metadata builder, the remote deposit client, and the part of the Zenodo *)
(* deposit service that the client talks to.                               *)
(*                                                                         *)
(* One behaviour is a sequence of executions of the script (runs).  Every  *)
(* HTTP request of the client is one action; a request either succeeds    *)
(* (the service changes state and answers) or is answered with a           *)
(* non-success status, in which case raise_for_status() raises and the run *)
(* ends (nothing in the script catches the exception).                     *)
(***************************************************************************)
EXTENDS Integers, Sequences, FiniteSets, TLC

----------------------------------------------------------------------------
(* Bounds of the model *)

\* number of executions of the script in one behaviour
MaxRuns == 2

\* number of HTTP requests the service answers with a non-success status
MaxFailures == 1

----------------------------------------------------------------------------
(* Encoding of the Python values a conceptdoi slot can hold.  Concept     *)
(* identifiers themselves are positive integers.                           *)

\* state.get(rel_path, {}) found no entry for the path
NoEntry == -2

\* file_state.get("conceptdoi") / record.get("conceptdoi") found no value
None == -1

\* the empty string, falsy like None
EmptyStr == 0

\* Python truthiness of a conceptdoi value (`if conceptdoi:`)
Truthy(x) == x \notin {NoEntry, None, EmptyStr}

----------------------------------------------------------------------------
(* Inputs on the local file system *)

\* sorted(glob.glob("out/*.pdf")); the paths are already in normal form,
\* so os.path.normpath leaves them as they are
Candidates == <<"out/a.pdf", "out/b.pdf">>

\* paths the state document may mention: the candidates and one path that
\* is no longer produced
StatePaths == {"out/a.pdf", "out/b.pdf", "out/old.pdf"}

\* os.path.basename
Basename(p) ==
    CASE p = "out/a.pdf" -> "a.pdf"
      [] p = "out/b.pdf" -> "b.pdf"
      [] OTHER -> "old.pdf"

\* zenodo.json: the base template (strings are sequences of tokens)
ZenodoJson == [title |-> <<"Report">>, license |-> <<"CC-BY-4.0">>]

\* zenodo.json of a project whose deposits bring their own DOI
ZenodoJsonOwnDoi ==
    [title |-> <<"Report">>, license |-> <<"CC-BY-4.0">>, doi |-> <<"10.1000/x">>]

\* zenodo.files.json: per-file overrides
ZenodoFilesJson ==
    [p \in {"out/a.pdf"} |-> [title |-> <<"Paper A">>, keywords |-> <<"k1">>]]

\* str(date.today()) during the successive executions (the last date stands
\* for every later day)
Dates == <<"2024-05-01", "2024-05-02", "2024-05-03">>

DateOfRun(r) == IF r < Len(Dates) THEN Dates[r] ELSE Dates[Len(Dates)]

----------------------------------------------------------------------------
(* load_json *)

\* what a document on disk can be: absent, of size 0, text that is not JSON,
\* bytes that are not UTF-8 text, or a JSON object
DocKinds == {"missing", "empty", "malformed", "undecodable", "valid"}

Doc(kind, data) == [kind |-> kind, data |-> data]

\* load_json, lines 34-35: open(path, encoding="utf-8") and json.load(f):
\* the exception raised, if any
JsonLoadRaises(doc) ==
    CASE doc.kind = "malformed" -> "JSONDecodeError"
      [] doc.kind = "undecodable" -> "UnicodeDecodeError"
      [] OTHER -> "none"

\* load_json, line 36: `except json.JSONDecodeError`
Caught(exc) == exc = "JSONDecodeError"

\* load_json(path, default), lines 21-38; default is the mapping that
\* `default if default is not None else {}` evaluates to.  The result is the
\* value returned, or the exception that leaves the function
load_json(doc, default) ==
    IF doc.kind = "missing" THEN [raised |-> "none", value |-> default]
    ELSE IF doc.kind = "empty" THEN [raised |-> "none", value |-> default]
    ELSE IF JsonLoadRaises(doc) = "none" THEN [raised |-> "none", value |-> doc.data]
    ELSE IF Caught(JsonLoadRaises(doc)) THEN [raised |-> "none", value |-> default]
    ELSE [raised |-> JsonLoadRaises(doc), value |-> default]

----------------------------------------------------------------------------
(* Dictionaries *)

\* d.get(k, default)
Get(d, k, default) == IF k \in DOMAIN d THEN d[k] ELSE default

\* d[k] = v
Put(d, k, v) == [x \in DOMAIN d \cup {k} |-> IF x = k THEN v ELSE d[x]]

\* d.setdefault(k, v)
SetDefault(d, k, v) == IF k \in DOMAIN d THEN d ELSE Put(d, k, v)

\* build_metadata, lines 49-54: the title
MetaTitle(meta, base_meta, file_meta, pdf_path) ==
    IF "title" \in DOMAIN file_meta
    THEN Put(meta, "title", file_meta["title"])
    ELSE Put(meta, "title",
             Get(base_meta, "title", <<>>) \o <<": ", Basename(pdf_path)>>)

\* a variant of lines 56-60: without an override the description is reset
MetaDescriptionReset(meta, file_meta) ==
    IF "description" \in DOMAIN file_meta
    THEN Put(meta, "description", file_meta["description"])
    ELSE Put(meta, "description", <<>>)

\* build_metadata, lines 56-60: the description
MetaDescription(meta, file_meta) ==
    IF "description" \in DOMAIN file_meta
    THEN Put(meta, "description", file_meta["description"])
    ELSE IF "description" \notin DOMAIN meta
         THEN Put(meta, "description", <<>>)
         ELSE meta

\* build_metadata, lines 62-64: the keywords
MetaKeywords(meta, file_meta) ==
    IF "keywords" \in DOMAIN file_meta
    THEN Put(meta, "keywords", file_meta["keywords"])
    ELSE meta

\* a variant of lines 66-69: the three fields are assigned, not defaulted
MetaDefaultsAssigned(meta) ==
    Put(Put(Put(meta, "upload_type", <<"publication">>),
            "publication_type", <<"report">>),
        "license", <<"CC-BY-4.0">>)

\* build_metadata, lines 66-69: the fields Zenodo requires
MetaDefaults(meta) ==
    SetDefault(SetDefault(SetDefault(meta, "upload_type", <<"publication">>),
                          "publication_type", <<"report">>),
               "license", <<"CC-BY-4.0">>)

\* build_metadata, lines 71-72: the publication date
MetaDate(meta, day) == Put(meta, "publication_date", <<day>>)

\* build_metadata(base_meta, file_meta, pdf_path), with date.today() = day
build_metadata(base_meta, file_meta, pdf_path, day) ==
    LET m0 == base_meta
        m1 == MetaTitle(m0, base_meta, file_meta, pdf_path)
        m2 == MetaDescription(m1, file_meta)
        m3 == MetaKeywords(m2, file_meta)
        m4 == MetaDefaults(m3)
    IN  MetaDate(m4, day)

\* a variant of line 47: `meta = base_meta`, the template itself is filled in
BaseAfterBuildAliased(base_meta, meta) == meta

\* build_metadata, line 47: `meta = dict(base_meta)` is a copy, so the caller's
\* base_meta is after the call what it was before
BaseAfterBuild(base_meta, meta) == base_meta

----------------------------------------------------------------------------
VARIABLES
    run,         \* number of executions of the script started so far
    pc,          \* where the current execution stands
    token,       \* ZENODO_TOKEN is set and non-empty
    today,       \* str(date.today()) during the current execution
    zenodo_json, \* zenodo.json: the base template on disk
    diskKind,    \* .zenodo_state.json: what the document is (DocKinds)
    disk,        \* .zenodo_state.json: path -> conceptdoi slot, when valid
    diskAtStart, \* .zenodo_state.json as it was when the execution started
    base_meta,   \* main's base_meta
    files_meta,  \* main's files_meta
    state,       \* main's state
    changed,     \* main's changed
    idx,         \* position of the for loop in Candidates
    conceptdoi,  \* main's conceptdoi for the current file
    metadata,    \* main's metadata for the current file
    latest,      \* new_version_deposition's recid (None: no hit)
    draft_url,   \* new_version_deposition's draft_url (the draft it names)
    dep_id,      \* new_version_deposition's dep_id
    record_url,  \* publish_deposition's record_url (the record it names)
    deposition,  \* main's deposition: what the service answered, [id, files]
    todo,        \* upload_file: the part of existing_files not yet visited
    deps,        \* the service: its depositions, a deposition's id is its index
    nextFile,    \* the service: the id of the next attached file
    failures,    \* requests answered with a non-success status so far
    calls,       \* the HTTP requests of the current execution, in order
    loads,       \* number of load_json calls of the current execution
    saves,       \* number of save_json calls of the current execution
    lineages     \* path -> concepts it was published under, over all runs

remoteVars == <<deps, nextFile>>
iterVars == <<conceptdoi, metadata, latest, draft_url, dep_id, record_url,
             deposition, todo>>
docVars == <<zenodo_json, diskKind, disk, diskAtStart, base_meta, files_meta,
            loads, saves>>
procVars == <<run, token, today>>
vars == <<run, pc, token, today, zenodo_json, diskKind, disk, diskAtStart,
          base_meta, files_meta, state,
          changed, idx, conceptdoi, metadata, latest, draft_url, dep_id, record_url,
          deposition, todo,
          deps, nextFile, failures, calls, loads, saves, lineages>>

----------------------------------------------------------------------------
(* The deposit service *)

File(i, name) == [id |-> i, filename |-> name]

\* file lists the record that exists before the first run may have
InitFileLists ==
    { <<>>,
      <<File(1, "a.pdf")>>,
      <<File(1, "a.pdf"), File(2, "b.pdf"), File(3, "a.pdf")>> }

\* the depositions of the service before the first run: the published record
\* of concept 1, and concept 2, which the service no longer resolves
InitDeps(files) ==
    << [concept |-> 1, version |-> 1, files |-> files, published |-> TRUE,
        gone |-> FALSE, meta |-> ZenodoJson],
       [concept |-> 2, version |-> 1, files |-> <<>>, published |-> TRUE,
        gone |-> TRUE, meta |-> ZenodoJson] >>

\* GET /records?q=conceptdoi:"c"&sort=version&order=desc&size=1: the hits
SearchHits(c) ==
    IF ~Truthy(c) THEN {}
    ELSE {i \in DOMAIN deps : deps[i].published /\ ~deps[i].gone /\ deps[i].concept = c}

\* a variant of the query of lines 79-84: the filter on the concept is lost
find_latest_record_unfiltered(c) ==
    LET all == {i \in DOMAIN deps : deps[i].published /\ ~deps[i].gone}
    IN  IF all = {} THEN None
        ELSE CHOOSE i \in all : \A j \in all : j <= i

\* find_latest_record_for_concept: hits[0]["id"], or None
find_latest_record_for_concept(c) ==
    IF SearchHits(c) = {} THEN None
    ELSE CHOOSE i \in SearchHits(c) :
             \A j \in SearchHits(c) : deps[j].version <= deps[i].version

\* POST /deposit/depositions: the new draft, deposition n of the service.
\* The service mints a concept for it (named after the deposition), unless
\* the metadata bring a DOI of their own: such a record has no conceptdoi
NewDeposit(n, meta) ==
    [concept |-> IF "doi" \in DOMAIN meta THEN None ELSE n,
     version |-> 1, files |-> <<>>, published |-> FALSE,
     gone |-> FALSE, meta |-> meta]

\* the unpublished drafts of the concept of deposition recid
OpenDrafts(recid) ==
    {i \in DOMAIN deps : ~deps[i].published /\ ~deps[i].gone
                         /\ deps[i].concept = deps[recid].concept}

\* POST .../{recid}/actions/newversion: the service opens a draft of the next
\* version, carrying the files of recid over, unless one is already open
NewVersionOpens(recid) == OpenDrafts(recid) = {}

NewVersionDraft(recid) ==
    [concept |-> deps[recid].concept, version |-> deps[recid].version + 1,
     files |-> deps[recid].files, published |-> FALSE, gone |-> FALSE,
     meta |-> deps[recid].meta]

\* links.latest_draft of the answer to newversion
LatestDraft(recid) ==
    IF NewVersionOpens(recid) THEN Len(deps) + 1
    ELSE CHOOSE i \in OpenDrafts(recid) : \A j \in OpenDrafts(recid) : j <= i

\* DELETE .../{dep_id}/files/{fid}: the file list without file fid
RECURSIVE WithoutFile(_, _)
WithoutFile(s, fid) ==
    IF s = <<>> THEN <<>>
    ELSE IF Head(s).id = fid THEN WithoutFile(Tail(s), fid)
         ELSE <<Head(s)>> \o WithoutFile(Tail(s), fid)



----------------------------------------------------------------------------
(* The script *)

NoDeposition == [id |-> None, files |-> <<>>]
NoMetadata == [title |-> <<>>]
NoFilesMeta == [p \in {} |-> NoMetadata]

\* rel_path of the current iteration
RelPath == Candidates[idx]

\* one HTTP request of the log
Call(op, dep, arg, ok) ==
    [op |-> op, path |-> RelPath, dep |-> dep, arg |-> arg, ok |-> ok]

\* the service may answer a request with a non-success status
MayFail == failures < MaxFailures

\* a variant of the loop of main: the exception of a request is caught and
\* the loop goes on with the next file
RaiseCaught(call) ==
    /\ failures < MaxFailures
    /\ calls' = Append(calls, call)
    /\ failures' = failures + 1
    /\ pc' = "for"
    /\ idx' = idx + 1
    /\ UNCHANGED <<procVars, docVars, state, changed, iterVars, remoteVars, lineages>>

\* a variant in which the state is saved before the exception ends the
\* execution
RaiseSaving(call) ==
    /\ failures < MaxFailures
    /\ calls' = Append(calls, call)
    /\ failures' = failures + 1
    /\ pc' = "aborted"
    /\ disk' = state
    /\ UNCHANGED <<procVars, zenodo_json, diskKind, diskAtStart, base_meta,
                   files_meta, loads, saves, state, changed, idx, iterVars,
                   remoteVars, lineages>>

\* raise_for_status() raises: the exception ends the execution
Raise(call) ==
    /\ MayFail
    /\ calls' = Append(calls, call)
    /\ failures' = failures + 1
    /\ pc' = "aborted"
    /\ UNCHANGED <<procVars, docVars, state, changed, idx, iterVars, remoteVars, lineages>>

\* the empty mapping, as a state
EmptyState == [p \in StatePaths |-> NoEntry]

\* the slots the state document may hold before the first run
InitSlots == {NoEntry, None, EmptyStr, 1, 2}

Init ==
    /\ run = 0
    /\ pc = "idle"
    /\ token = TRUE
    /\ today = DateOfRun(1)
    /\ zenodo_json \in {ZenodoJson, ZenodoJsonOwnDoi}
    /\ diskKind \in DocKinds
    /\ IF diskKind = "valid"
       THEN disk \in {d \in [StatePaths -> InitSlots] : d["out/old.pdf"] = 2}
       ELSE disk = EmptyState
    /\ diskAtStart = disk
    /\ base_meta = NoMetadata
    /\ files_meta = NoFilesMeta
    /\ state = EmptyState
    /\ changed = FALSE
    /\ idx = 1
    /\ conceptdoi = None
    /\ metadata = NoMetadata
    /\ latest = None
    /\ draft_url = None
    /\ dep_id = None
    /\ record_url = None
    /\ deposition = NoDeposition
    /\ todo = <<>>
    /\ \E files \in InitFileLists : deps = InitDeps(files)
    /\ nextFile = 4
    /\ failures = 0
    /\ calls = <<>>
    /\ loads = 0
    /\ saves = 0
    /\ lineages = [p \in StatePaths |-> {}]

\* the script is started in a fresh process: the environment fixes the
\* credential and the date
StartProcess ==
    /\ pc \in {"idle", "done", "aborted", "exit", "crashed"}
    /\ run < MaxRuns
    /\ run' = run + 1
    /\ token' \in BOOLEAN
    /\ today' = DateOfRun(run')
    /\ pc' = "main"
    /\ diskAtStart' = disk
    /\ base_meta' = NoMetadata
    /\ files_meta' = NoFilesMeta
    /\ state' = EmptyState
    /\ changed' = FALSE
    /\ idx' = 1
    /\ conceptdoi' = None
    /\ metadata' = NoMetadata
    /\ latest' = None
    /\ draft_url' = None
    /\ dep_id' = None
    /\ record_url' = None
    /\ deposition' = NoDeposition
    /\ todo' = <<>>
    /\ calls' = <<>>
    /\ loads' = 0
    /\ saves' = 0
    /\ UNCHANGED <<zenodo_json, diskKind, disk, remoteVars, failures, lineages>>

\* a variant of lines 173-174: the credential is not checked
TokenMissingIgnored == FALSE

\* main, lines 173-174: `if not ZENODO_TOKEN: raise SystemExit(...)`
TokenMissing == ~token

\* main, lines 173-180: the credential check, then the three documents; an
\* exception that leaves load_json ends the execution
MainStart ==
    /\ pc = "main"
    /\ IF TokenMissing
       THEN /\ pc' = "exit"
            /\ UNCHANGED <<base_meta, files_meta, state, changed, idx, loads>>
       ELSE LET b == load_json(Doc("valid", zenodo_json), NoMetadata)
                f == load_json(Doc("valid", ZenodoFilesJson), NoFilesMeta)
                st == load_json(Doc(diskKind, disk), EmptyState)
            IN  /\ base_meta' = b.value
                /\ files_meta' = f.value
                /\ loads' = loads + 3
                /\ IF st.raised = "none"
                   THEN /\ state' = st.value
                        /\ pc' = "for"
                   ELSE /\ state' = state
                        /\ pc' = "crashed"
                /\ changed' = FALSE
                /\ idx' = 1
    /\ UNCHANGED <<procVars, zenodo_json, diskKind, disk, diskAtStart, saves,
                   iterVars, remoteVars, failures, calls, lineages>>

\* a variant of the test of line 192: `if conceptdoi is not None:`
TakesNewVersionPathNotNone(c) == c # None

\* a variant of the test of line 192: the new-version path is never taken
TakesNewVersionPathNever(c) == FALSE

\* main, line 192: `if conceptdoi:`
TakesNewVersionPath(c) == Truthy(c)

\* main, lines 186-187
RecordedConcept(st, p) == IF st[p] = NoEntry THEN None ELSE st[p]

\* main, lines 182-197: the head of an iteration up to the choice of the path
ForNext ==
    /\ pc = "for"
    /\ idx <= Len(Candidates)
    /\ conceptdoi' = RecordedConcept(state, RelPath)
    /\ metadata' = build_metadata(base_meta, Get(files_meta, RelPath, <<>>),
                                  RelPath, today)
    /\ base_meta' = BaseAfterBuild(base_meta, metadata')
    /\ pc' = IF TakesNewVersionPath(conceptdoi') THEN "find_latest" ELSE "create"
    /\ UNCHANGED <<procVars, zenodo_json, diskKind, disk, diskAtStart, files_meta,
                   loads, saves, state, changed, idx, latest, draft_url,
                   dep_id, record_url, deposition, todo, remoteVars, failures,
                   calls, lineages>>


\* a variant of the test of line 105: the fallback is always taken
FallsBackAlways(found) == TRUE

\* new_version_deposition, line 105: `if latest is None`
FallsBack(found) == found = None

\* find_latest_record_for_concept, lines 85-90, and new_version_deposition,
\* lines 104-109: the search, then the fallback or the record's id
FindLatest ==
    /\ pc = "find_latest"
    /\ \/ Raise(Call("search", None, conceptdoi, FALSE))
       \/ /\ latest' = find_latest_record_for_concept(conceptdoi)
          /\ calls' = Append(calls, Call("search", latest', conceptdoi, TRUE))
          /\ pc' = IF FallsBack(latest') THEN "create" ELSE "newversion"
          /\ UNCHANGED <<procVars, docVars, state, changed, idx, conceptdoi,
                         metadata, draft_url, dep_id, record_url, deposition, todo,
                         remoteVars, failures, lineages>>

\* create_new_deposition, lines 93-100 (called from line 107 or line 197)
CreateNewDeposition ==
    /\ pc = "create"
    /\ \/ Raise(Call("create", None, None, FALSE))
       \/ LET n == Len(deps) + 1
              new == NewDeposit(n, metadata)
          IN  /\ deps' = Append(deps, new)
              /\ deposition' = [id |-> n, files |-> new.files]
              /\ todo' = deposition'.files
              /\ calls' = Append(calls, Call("create", n, new.concept, TRUE))
              /\ pc' = "upload"
              /\ UNCHANGED <<procVars, docVars, state, changed, idx, conceptdoi,
                             metadata, latest, draft_url, dep_id, record_url,
                             nextFile, failures, lineages>>

\* new_version_deposition, lines 111-120: the new-version action on recid
NewVersionAction ==
    /\ pc = "newversion"
    /\ \/ Raise(Call("newversion", latest, None, FALSE))
       \/ /\ draft_url' = LatestDraft(latest)
          /\ deps' = IF NewVersionOpens(latest)
                     THEN Append(deps, NewVersionDraft(latest))
                     ELSE deps
          /\ calls' = Append(calls, Call("newversion", latest, draft_url', TRUE))
          /\ pc' = "get_draft"
          /\ UNCHANGED <<procVars, docVars, state, changed, idx, conceptdoi,
                         metadata, latest, dep_id, record_url, deposition, todo,
                         nextFile, failures, lineages>>

\* a variant of line 124: the id of the answer to newversion is used
DraftIdOfResponse(recid, draft) == recid

\* new_version_deposition, line 124: `dep_id = draft["id"]`, the id of the
\* deposit fetched from latest_draft, not the id of the answer to newversion
DraftId(recid, draft) == draft

\* new_version_deposition, lines 121-124: the draft behind latest_draft
GetDraft ==
    /\ pc = "get_draft"
    /\ \/ Raise(Call("get_draft", draft_url, None, FALSE))
       \/ /\ dep_id' = DraftId(latest, draft_url)
          /\ calls' = Append(calls, Call("get_draft", draft_url, None, TRUE))
          /\ pc' = "put_metadata"
          /\ UNCHANGED <<procVars, docVars, state, changed, idx, conceptdoi,
                         metadata, latest, draft_url, record_url, deposition, todo,
                         remoteVars, failures, lineages>>

\* new_version_deposition, lines 126-133: the draft's metadata is replaced
PutMetadata ==
    /\ pc = "put_metadata"
    /\ \/ Raise(Call("put_metadata", dep_id, None, FALSE))
       \/ /\ deps' = [deps EXCEPT ![dep_id].meta = metadata]
          /\ deposition' = [id |-> dep_id, files |-> deps[dep_id].files]
          /\ todo' = deposition'.files
          /\ calls' = Append(calls, Call("put_metadata", dep_id, None, TRUE))
          /\ pc' = "upload"
          /\ UNCHANGED <<procVars, docVars, state, changed, idx, conceptdoi,
                         metadata, latest, draft_url, dep_id, record_url,
                         nextFile, failures, lineages>>

\* a variant of the test of line 143: the file's id is compared to the name
SameNameById(f, dest_name) == FALSE

\* upload_file, line 143: `if f["filename"] == dest_name`
SameName(f, dest_name) == f.filename = dest_name

\* upload_file, lines 142-143: what is left of existing_files from its next
\* file named dest_name on
RECURSIVE FromNextSameName(_, _)
FromNextSameName(fs, dest_name) ==
    IF fs = <<>> THEN <<>>
    ELSE IF SameName(Head(fs), dest_name) THEN fs
         ELSE FromNextSameName(Tail(fs), dest_name)

\* upload_file, lines 142-146: the next existing file named dest_name is deleted
UploadDeleteExisting ==
    /\ pc = "upload"
    /\ FromNextSameName(todo, Basename(RelPath)) # <<>>
    /\ LET rest == FromNextSameName(todo, Basename(RelPath))
           f == Head(rest)
       IN  \/ Raise(Call("delete", deposition.id, f.id, FALSE))
           \/ /\ deps' = [deps EXCEPT ![deposition.id].files = WithoutFile(@, f.id)]
              /\ todo' = Tail(rest)
              /\ calls' = Append(calls, Call("delete", deposition.id, f.id, TRUE))
              /\ UNCHANGED <<procVars, docVars, state, changed, idx, conceptdoi,
                             metadata, latest, draft_url, dep_id, record_url,
                             deposition, nextFile, failures, lineages, pc>>

\* upload_file, lines 148-155: the local file is posted under dest_name
UploadPost ==
    /\ pc = "upload"
    /\ FromNextSameName(todo, Basename(RelPath)) = <<>>
    /\ \/ Raise(Call("upload", deposition.id, None, FALSE))
       \/ /\ deps' = [deps EXCEPT ![deposition.id].files =
                         Append(@, File(nextFile, Basename(RelPath)))]
          /\ nextFile' = nextFile + 1
          /\ todo' = <<>>
          /\ calls' = Append(calls, Call("upload", deposition.id, nextFile, TRUE))
          /\ pc' = "publish"
          /\ UNCHANGED <<procVars, docVars, state, changed, idx, conceptdoi,
                         metadata, latest, draft_url, dep_id, record_url,
                         deposition, failures, lineages>>

\* publish_deposition, lines 159-166: the publish action
PublishAction ==
    /\ pc = "publish"
    /\ \/ Raise(Call("publish", deposition.id, None, FALSE))
       \/ /\ deps' = [deps EXCEPT ![deposition.id].published = TRUE]
          /\ record_url' = deposition.id
          /\ calls' = Append(calls, Call("publish", deposition.id, None, TRUE))
          /\ lineages' = IF Truthy(deps[deposition.id].concept)
                         THEN [lineages EXCEPT ![RelPath] =
                                  @ \cup {deps[deposition.id].concept}]
                         ELSE lineages
          /\ pc' = "get_record"
          /\ UNCHANGED <<procVars, docVars, state, changed, idx, conceptdoi,
                         metadata, latest, draft_url, dep_id, deposition, todo,
                         nextFile, failures>>

\* a variant of the test of line 207: only a first concept is recorded
ConceptChangedFirstOnly(new_conceptdoi, old) == Truthy(new_conceptdoi) /\ ~Truthy(old)

\* main, line 207: `if new_conceptdoi and new_conceptdoi != conceptdoi`
ConceptChanged(new_conceptdoi, old) == Truthy(new_conceptdoi) /\ new_conceptdoi # old

\* a variant of line 208: the state is rebuilt with the one entry
UpdateStateOnly(st, p, c) == [q \in DOMAIN st |-> IF q = p THEN c ELSE NoEntry]

\* main, line 208: `state[rel_path] = {"conceptdoi": new_conceptdoi}`
UpdateState(st, p, c) == [st EXCEPT ![p] = c]

\* publish_deposition, lines 167-169, and main, lines 202-209: the published
\* record is fetched and its concept identifier is recorded
GetRecord ==
    /\ pc = "get_record"
    /\ \/ Raise(Call("get_record", record_url, None, FALSE))
       \/ LET new_conceptdoi == deps[record_url].concept
          IN  /\ calls' = Append(calls, Call("get_record", record_url, new_conceptdoi, TRUE))
              /\ IF ConceptChanged(new_conceptdoi, conceptdoi)
                 THEN /\ state' = UpdateState(state, RelPath, new_conceptdoi)
                      /\ changed' = TRUE
                 ELSE UNCHANGED <<state, changed>>
              /\ idx' = idx + 1
              /\ conceptdoi' = None
              /\ metadata' = NoMetadata
              /\ latest' = None
              /\ draft_url' = None
              /\ dep_id' = None
              /\ record_url' = None
              /\ deposition' = NoDeposition
              /\ todo' = <<>>
              /\ pc' = "for"
              /\ UNCHANGED <<procVars, docVars, remoteVars, failures, lineages>>

\* variants of the test of line 211: the document is never / always saved
ShouldSaveNever == FALSE

ShouldSaveAlways == TRUE

\* main, line 211: `if changed:`
ShouldSave == changed

\* a variant of the end of the loop: the loop is left after any iteration
LoopExhaustedEarly(i) == i > 1

\* main, line 182: the `for` loop has gone through every candidate
LoopExhausted(i) == i > Len(Candidates)

\* main, lines 211-215: after the loop, the state document is saved or not
MainFinish ==
    /\ pc = "for"
    /\ LoopExhausted(idx)
    /\ IF ShouldSave
       THEN /\ disk' = state
            /\ diskKind' = "valid"
            /\ saves' = saves + 1
       ELSE UNCHANGED <<disk, diskKind, saves>>
    /\ pc' = "done"
    /\ UNCHANGED <<procVars, zenodo_json, diskAtStart, base_meta, files_meta, loads,
                   state, changed,
                   idx, iterVars, remoteVars, failures, calls, lineages>>

\* between two executions the service stops resolving a concept (its records
\* are withdrawn)
Withdraw ==
    /\ pc \in {"done", "aborted", "exit", "crashed"}
    /\ run < MaxRuns
    /\ \E c \in {deps[i].concept : i \in DOMAIN deps} :
         /\ Truthy(c)
         /\ \E i \in DOMAIN deps : deps[i].concept = c /\ ~deps[i].gone
         /\ deps' = [i \in DOMAIN deps |->
                       IF deps[i].concept = c THEN [deps[i] EXCEPT !.gone = TRUE]
                       ELSE deps[i]]
    /\ UNCHANGED <<procVars, pc, docVars, state, changed, idx, iterVars, nextFile,
                   failures, calls, lineages>>

Next ==
    \/ StartProcess
    \/ MainStart
    \/ ForNext
    \/ FindLatest
    \/ CreateNewDeposition
    \/ NewVersionAction
    \/ GetDraft
    \/ PutMetadata
    \/ UploadDeleteExisting
    \/ UploadPost
    \/ PublishAction
    \/ GetRecord
    \/ MainFinish
    \/ Withdraw

Spec == Init /\ [][Next]_vars

----------------------------------------------------------------------------
(* The metadata builder on its own: one call of build_metadata on a base   *)
(* template, an override mapping and a path drawn from bounded sets        *)

BaseFields == {"title", "description", "keywords", "upload_type",
               "publication_type", "license", "publication_date"}

OverrideFields == {"title", "description", "keywords"}

\* zenodo.json: every template over the fields, with values of its own
BaseTemplates == {[k \in F |-> <<"base", k>>] : F \in SUBSET BaseFields}

\* zenodo.files.json: every override over the fields read by build_metadata
Overrides == {[k \in F |-> <<"file", k>>] : F \in SUBSET OverrideFields}

InitMeta ==
    /\ run = 1
    /\ pc = "build"
    /\ token = TRUE
    /\ today \in {Dates[i] : i \in DOMAIN Dates}
    /\ zenodo_json \in BaseTemplates
    /\ diskKind = "missing"
    /\ disk = EmptyState
    /\ diskAtStart = disk
    /\ base_meta = zenodo_json
    /\ idx \in DOMAIN Candidates
    /\ files_meta \in {[p \in {Candidates[idx]} |-> o] : o \in Overrides}
    /\ state = EmptyState
    /\ changed = FALSE
    /\ conceptdoi = None
    /\ metadata = NoMetadata
    /\ latest = None
    /\ draft_url = None
    /\ dep_id = None
    /\ record_url = None
    /\ deposition = NoDeposition
    /\ todo = <<>>
    /\ deps = InitDeps(<<>>)
    /\ nextFile = 4
    /\ failures = 0
    /\ calls = <<>>
    /\ loads = 3
    /\ saves = 0
    /\ lineages = [p \in StatePaths |-> {}]

\* main, lines 188-189: file_meta is looked up and build_metadata is called
BuildMetadata ==
    /\ pc = "build"
    /\ metadata' = build_metadata(base_meta, Get(files_meta, RelPath, <<>>),
                                  RelPath, today)
    /\ base_meta' = BaseAfterBuild(base_meta, metadata')
    /\ pc' = "built"
    /\ UNCHANGED <<procVars, zenodo_json, diskKind, disk, diskAtStart, files_meta,
                   loads, saves, state, changed, idx, conceptdoi, latest,
                   draft_url, dep_id, record_url, deposition, todo, remoteVars,
                   failures, calls, lineages>>

NextMeta == BuildMetadata

SpecMeta == InitMeta /\ [][NextMeta]_vars


----------------------------------------------------------------------------
(* Reading the log of the current execution *)

CandidateSet == {Candidates[i] : i \in DOMAIN Candidates}

\* the position of a candidate in the iteration order
PosOf(p) == CHOOSE i \in DOMAIN Candidates : Candidates[i] = p

\* the requests of kind op issued for path p
CallsOf(p, op) == {i \in DOMAIN calls : calls[i].path = p /\ calls[i].op = op}

\* the requests issued for path p
CallsFor(p) == {i \in DOMAIN calls : calls[i].path = p}

\* the concept identifier the loaded state records for p
Loaded(p) == RecordedConcept(diskAtStart, p)

\* the iteration of p has chosen its path and issued its first request
PathTaken(p) ==
    \/ PosOf(p) < idx
    \/ PosOf(p) = idx /\ pc \in {"newversion", "get_draft", "put_metadata",
                                 "upload", "publish", "get_record"}

\* the search for p's recorded concept was answered with a hit / with no hit
SearchHit(p) == \E i \in CallsOf(p, "search") : calls[i].ok /\ calls[i].dep # None
SearchMiss(p) == \E i \in CallsOf(p, "search") : calls[i].ok /\ calls[i].dep = None

\* the conceptdoi of the record published for p in this execution was c
PublishedAs(p, c) == \E i \in CallsOf(p, "get_record") : calls[i].ok /\ calls[i].arg = c

----------------------------------------------------------------------------
(* Claims *)

\* C1: for every candidate file with no recorded concept identifier in the
\* loaded state (no entry, no conceptdoi, or an empty one), main invokes
\* create_new_deposition exactly once (once its iteration has been reached,
\* never twice) and issues neither the concept lookup nor the new-version
\* action for it.
C1_CreateOnceNeverNewVersion ==
    \A p \in CandidateSet :
        (loads > 0 /\ ~Truthy(Loaded(p))) =>
            /\ Cardinality(CallsOf(p, "create")) <= 1
            /\ CallsOf(p, "search") = {}
            /\ CallsOf(p, "newversion") = {}
            /\ PathTaken(p) => Cardinality(CallsOf(p, "create")) = 1
            /\ pc = "done" => Cardinality(CallsOf(p, "create")) = 1

\* C1 witness: a run is complete in which a file whose recorded conceptdoi
\* was the empty string got its one create call
C1_Witness ==
    /\ pc = "done"
    /\ \E p \in CandidateSet :
         /\ diskAtStart[p] = EmptyStr
         /\ Cardinality(CallsOf(p, "create")) = 1

\* C2: for every candidate file whose recorded concept identifier resolves
\* (the lookup answers with a latest record R), the next request is the
\* new-version action on deposition R, create_new_deposition is never called
\* for the file, and the file is uploaded to an unpublished draft whose
\* concept identifier is the recorded one.
C2_ResolvedTakesNewVersion ==
    \A p \in CandidateSet :
        \A i \in CallsOf(p, "search") :
            (calls[i].ok /\ calls[i].dep # None) =>
                /\ calls[i].arg = Loaded(p)
                /\ deps[calls[i].dep].published
                /\ deps[calls[i].dep].concept = Loaded(p)
                /\ CallsOf(p, "create") = {}
                /\ (i < Len(calls) =>
                      /\ calls[i + 1].op = "newversion"
                      /\ calls[i + 1].path = p
                      /\ calls[i + 1].dep = calls[i].dep)
                /\ \A j \in CallsOf(p, "newversion") : j = i + 1
                /\ \A j \in CallsOf(p, "upload") :
                      /\ deps[calls[j].dep].concept = Loaded(p)
                      /\ calls[j].dep # calls[i].dep
                      /\ (pc = "publish" /\ RelPath = p) => ~deps[calls[j].dep].published

\* C2 witness: the file has been uploaded to the draft of a new version
C2_Witness ==
    /\ pc = "publish"
    /\ SearchHit(RelPath)
    /\ \E j \in CallsOf(RelPath, "upload") : calls[j].ok
    /\ \E j \in CallsOf(RelPath, "newversion") : calls[j].ok

\* C3: when the lookup for the recorded concept identifier answers with no
\* hit, the next request is the creation of a new deposit, no new-version
\* action is issued for the file, and once the run is complete the state
\* document maps the path to the concept identifier of the published record,
\* not to the stale one.
C3_MissFallsBackAndOverwrites ==
    \A p \in CandidateSet :
        \A i \in CallsOf(p, "search") :
            (calls[i].ok /\ calls[i].dep = None) =>
                /\ CallsOf(p, "newversion") = {}
                /\ (i < Len(calls) =>
                      calls[i + 1].op = "create" /\ calls[i + 1].path = p)
                /\ \A c \in {calls[k].arg : k \in CallsOf(p, "get_record")} :
                      (pc = "done" /\ Truthy(c)) =>
                          /\ disk[p] = c
                          /\ c # Loaded(p)
                          /\ saves = 1

\* C3 witness: a run is complete in which a stale concept was replaced
C3_Witness ==
    /\ pc = "done"
    /\ \E p \in CandidateSet :
         /\ SearchMiss(p)
         /\ Truthy(disk[p])
         /\ PublishedAs(p, disk[p])
         /\ diskAtStart[p] # disk[p]


\* the concept of p's lineage is recorded and resolves: the first concept p
\* was ever published under is the one the state document holds, and the
\* service still answers the lookup for it
Established(p) ==
    /\ Cardinality(lineages[p]) = 1
    /\ disk[p] \in lineages[p]
    /\ SearchHits(disk[p]) # {}

\* the current execution loaded a document that records, for p, a concept p
\* was published under, the document is as it was, and the concept resolves
LaterRunOn(p) ==
    /\ loads > 0
    /\ diskAtStart[p] \in lineages[p]
    /\ disk[p] = diskAtStart[p]
    /\ SearchHits(disk[p]) # {}

\* C4: once a completed run has recorded the concept a file was first
\* published under, every later run on the unchanged state document, while
\* the service resolves the concept, takes the new-version path for the file
\* (no create request), and the set of concepts the path was ever published
\* under stays that one concept.
C4_LaterRunsExtendTheLineage ==
    [][\A p \in CandidateSet :
          /\ Established(p) => lineages'[p] = lineages[p]
          /\ LaterRunOn(p)' =>
                /\ CallsOf(p, "create")' = {}
                /\ ~(pc' = "create" /\ RelPath' = p)]_vars

\* C4 witness: the second run has published a new version of the concept
\* that the first run created and recorded for the file
C4_Witness ==
    /\ run = 2
    /\ pc = "done"
    /\ \E p \in CandidateSet :
         /\ Established(p)
         /\ LaterRunOn(p)
         /\ diskAtStart[p] \notin InitSlots
         /\ PublishedAs(p, diskAtStart[p])
         /\ \E j \in CallsOf(p, "newversion") : calls[j].ok

\* C5: after a run that completes (no request failed), the state document
\* maps every candidate whose published record carried a concept identifier
\* to exactly that identifier.
C5_DocumentHoldsPublishedConcepts ==
    pc = "done" =>
        \A p \in CandidateSet :
            \A i \in CallsOf(p, "get_record") :
                Truthy(calls[i].arg) => disk[p] = calls[i].arg

\* C5 witness: a completed run rewrote one entry and left another, which
\* already held the concept of the record published for it
C5_Witness ==
    /\ pc = "done"
    /\ saves = 1
    /\ \E p, q \in CandidateSet :
         /\ Truthy(disk[p]) /\ PublishedAs(p, disk[p]) /\ disk[p] # diskAtStart[p]
         /\ Truthy(disk[q]) /\ PublishedAs(q, disk[q]) /\ disk[q] = diskAtStart[q]

\* the record published for p carried a concept identifier other than the
\* one the loaded state records for p
OutcomeChanged(p) ==
    \E i \in CallsOf(p, "get_record") :
        calls[i].ok /\ Truthy(calls[i].arg) /\ calls[i].arg # Loaded(p)

\* C6: at the end of a run the state document is written (once) if and only
\* if the record published for some file carried a concept identifier other
\* than the recorded one; as long as no publish outcome differs, save_json
\* has not been called and the document is as it was before the run.
C6_SavedIffSomeConceptChanged ==
    /\ saves <= 1
    /\ pc = "done" => (saves = 1 <=> \E p \in CandidateSet : OutcomeChanged(p))
    /\ (\A p \in CandidateSet : ~OutcomeChanged(p)) =>
          (saves = 0 /\ disk = diskAtStart)

\* C6 witness: a completed run published a new version and wrote nothing
C6_Witness ==
    /\ pc = "done"
    /\ saves = 0
    /\ disk = diskAtStart
    /\ \E p \in CandidateSet : Truthy(Loaded(p)) /\ PublishedAs(p, Loaded(p))

\* C7: a request answered with a non-success status is the last request of
\* the run (none follows, for this file or a later one), the run is aborted,
\* and the state document is not written: it is as it was before the run.
C7_FailureAbortsWithoutSaving ==
    /\ \A i \in DOMAIN calls :
          ~calls[i].ok =>
              /\ i = Len(calls)
              /\ pc = "aborted"
              /\ saves = 0
              /\ disk = diskAtStart
    /\ pc = "aborted" => (calls # <<>> /\ ~calls[Len(calls)].ok)

\* C7 witness: the run aborted on the second file after the first was
\* published under a new concept, which the document does not hold
C7_Witness ==
    /\ pc = "aborted"
    /\ idx = Len(Candidates)
    /\ changed
    /\ OutcomeChanged(Candidates[1])
    /\ disk = diskAtStart

\* C8: without the credential main ends before any request and before any
\* document is read or written.
C8_NoTokenNoSideEffect ==
    /\ ~token =>
          /\ pc \in {"main", "exit"}
          /\ calls = <<>>
          /\ loads = 0
          /\ saves = 0
          /\ disk = diskAtStart
    /\ pc = "exit" => ~token

\* C8 witness: a run has ended on the missing credential
C8_Witness == pc = "exit" /\ ~token /\ calls = <<>> /\ loads = 0

\* the number of files of a list whose name is dest_name
NamedCount(files, dest_name) ==
    Cardinality({i \in DOMAIN files : files[i].filename = dest_name})

\* the files of a list whose name is not dest_name
RECURSIVE OtherNamed(_, _)
OtherNamed(fs, dest_name) ==
    IF fs = <<>> THEN <<>>
    ELSE IF Head(fs).filename = dest_name THEN OtherNamed(Tail(fs), dest_name)
         ELSE <<Head(fs)>> \o OtherNamed(Tail(fs), dest_name)

\* upload_file has returned for the current file
Uploaded == pc \in {"publish", "get_record"}

\* C9: after upload_file has succeeded on a deposit that had one or more
\* files named dest_name, the deposit has exactly one file of that name (the
\* new one), every delete request came before the upload request, one delete
\* per old file of that name, and the files of other names are still attached.
C9_UploadReplacesSameName ==
    (Uploaded /\ NamedCount(deposition.files, Basename(RelPath)) >= 1) =>
        LET d == deposition.id
            name == Basename(RelPath)
            up == CallsOf(RelPath, "upload")
        IN  /\ NamedCount(deps[d].files, name) = 1
            /\ \A j \in up : \E k \in DOMAIN deps[d].files :
                  deps[d].files[k] = File(calls[j].arg, name)
            /\ \A i \in CallsOf(RelPath, "delete") : \A j \in up : i < j
            /\ Cardinality(CallsOf(RelPath, "delete")) = NamedCount(deposition.files, name)
            /\ OtherNamed(deps[d].files, name) = OtherNamed(deposition.files, name)

\* C9 witness: the upload replaced two files of the name and kept a third
C9_Witness ==
    /\ pc = "publish"
    /\ NamedCount(deposition.files, Basename(RelPath)) = 2
    /\ OtherNamed(deps[deposition.id].files, Basename(RelPath)) # <<>>
    /\ NamedCount(deps[deposition.id].files, Basename(RelPath)) = 1

\* the lookup for concept c was answered with no hit in the iteration of p,
\* and a new deposit was created for p
FreshAfterMiss(p, c) ==
    /\ \E i \in CallsOf(p, "search") :
          calls[i].ok /\ calls[i].arg = c /\ calls[i].dep = None
    /\ \E i \in CallsOf(p, "create") : calls[i].ok

\* C10: the publication state, in memory and on disk, maps every path to
\* one slot, and within a run the concept identifier of a path changes from
\* one non-empty value to another only in an iteration whose lookup of the
\* old identifier found nothing and which created a new deposit.
C10_ConceptChangesOnlyAfterMiss ==
    [][/\ DOMAIN state' = StatePaths
       /\ DOMAIN disk' = StatePaths
       /\ \A p \in StatePaths :
            /\ (run' = run /\ Truthy(state[p]) /\ Truthy(state'[p])
                   /\ state'[p] # state[p]) =>
                  /\ pc = "get_record"
                  /\ RelPath = p
                  /\ FreshAfterMiss(p, state[p])
            /\ (Truthy(disk[p]) /\ Truthy(disk'[p]) /\ disk'[p] # disk[p]) =>
                  /\ pc = "for"
                  /\ FreshAfterMiss(p, disk[p])]_vars

\* C10 witness: the in-memory state holds a new concept for a path whose
\* recorded concept the service did not resolve
C10_Witness ==
    /\ pc = "for"
    /\ \E p \in CandidateSet :
         /\ Truthy(Loaded(p))
         /\ Truthy(state[p])
         /\ state[p] # Loaded(p)
         /\ FreshAfterMiss(p, Loaded(p))


\* the state document the current execution loaded is not a JSON object, and
\* has not been rewritten since
UnreadableState(kinds) == token /\ loads > 0 /\ saves = 0 /\ diskKind \in kinds

\* load_json gave the empty mapping: the run goes on and treats every
\* candidate as having no recorded concept identifier
TreatedAsEmpty ==
    /\ pc # "crashed"
    /\ \A p \in CandidateSet :
          /\ CallsOf(p, "search") = {}
          /\ CallsOf(p, "newversion") = {}
          /\ PathTaken(p) => Cardinality(CallsOf(p, "create")) = 1

\* C11: load_json returns the default and never raises when the document is
\* missing, empty or does not parse, so a run on a missing, empty or corrupt
\* state document treats every candidate file as not recorded and does not
\* end on the load.
C11_UnreadableStateIsEmptyState ==
    UnreadableState(DocKinds \ {"valid"}) => TreatedAsEmpty

\* C11, the documents load_json recovers from: missing, empty, or text that
\* json.load rejects with JSONDecodeError
C11_RecoveredKinds ==
    UnreadableState({"missing", "empty", "malformed"}) => TreatedAsEmpty


\* the override mapping build_metadata was called with
FileMeta == Get(files_meta, RelPath, <<>>)

\* C12, as claimed: the description of the output is the override's if the
\* override has one; otherwise the base template's if it has one; otherwise
\* the output has no description.
C12_DescriptionUnsetWithoutSource ==
    pc = "built" =>
        IF "description" \in DOMAIN FileMeta
        THEN /\ "description" \in DOMAIN metadata
             /\ metadata["description"] = FileMeta["description"]
        ELSE IF "description" \in DOMAIN zenodo_json
             THEN /\ "description" \in DOMAIN metadata
                  /\ metadata["description"] = zenodo_json["description"]
             ELSE "description" \notin DOMAIN metadata

\* C12, amended: the description of the output is the override's if the
\* override has one; otherwise the base template's if it has one; otherwise
\* the output has a description, the empty string.
C12_DescriptionEmptyWithoutSource ==
    pc = "built" =>
        /\ "description" \in DOMAIN metadata
        /\ metadata["description"] =
              IF "description" \in DOMAIN FileMeta THEN FileMeta["description"]
              ELSE IF "description" \in DOMAIN zenodo_json
                   THEN zenodo_json["description"]
                   ELSE <<>>

\* C12 witness: neither the override nor the template has a description,
\* and the output has the empty one
C12_Witness ==
    /\ pc = "built"
    /\ "description" \notin DOMAIN FileMeta
    /\ "description" \notin DOMAIN zenodo_json
    /\ "description" \in DOMAIN metadata
    /\ metadata["description"] = <<>>


\* the default build_metadata gives a required field
DefaultOf(k) ==
    CASE k = "upload_type" -> <<"publication">>
      [] k = "publication_type" -> <<"report">>
      [] OTHER -> <<"CC-BY-4.0">>

\* C16: in the output, upload_type, publication_type and license have the
\* defaults "publication", "report" and "CC-BY-4.0" exactly when the base
\* template lacks the field, and the template's value otherwise;
\* publication_date is the current date whatever the template carried.
C16_DefaultsOnlyWhenAbsentDateAlways ==
    pc = "built" =>
        /\ \A k \in {"upload_type", "publication_type", "license"} :
              /\ k \in DOMAIN metadata
              /\ k \in DOMAIN zenodo_json => metadata[k] = zenodo_json[k]
              /\ k \notin DOMAIN zenodo_json => metadata[k] = DefaultOf(k)
        /\ "publication_date" \in DOMAIN metadata
        /\ metadata["publication_date"] = <<today>>

\* C16 witness: a template with a license and a publication date of its own
\* and no upload_type was built into metadata
C16_Witness ==
    /\ pc = "built"
    /\ "upload_type" \notin DOMAIN zenodo_json
    /\ metadata["upload_type"] = <<"publication">>
    /\ "license" \in DOMAIN zenodo_json
    /\ metadata["license"] = <<"base", "license">>
    /\ "publication_date" \in DOMAIN zenodo_json
    /\ metadata["publication_date"] # zenodo_json["publication_date"]


\* the place of a request in the order of one iteration: lookup, then
\* create or new version (with its draft and its metadata), then upload_file
\* (deletes, then the upload), then publish_deposition
Rank(op) ==
    CASE op = "search" -> 1
      [] op = "create" -> 2
      [] op = "newversion" -> 2
      [] op = "get_draft" -> 3
      [] op = "put_metadata" -> 4
      [] op = "delete" -> 5
      [] op = "upload" -> 6
      [] op = "publish" -> 7
      [] OTHER -> 8

\* the kinds of request issued for path p
OpsOf(p) == {calls[i].op : i \in CallsFor(p)}

\* C13: the requests of a run are issued file by file in the order of the
\* candidates, and within one file in the order lookup (exactly when a
\* concept is recorded), create or new version, upload, publish, each at most
\* once (only the deletes of upload_file may repeat), every stage after the
\* one it needs; a request for a later file is issued only after the
\* published record of the earlier file was fetched and its concept is in
\* the in-memory state.
C13_SequentialPerFile ==
    /\ \A i, j \in DOMAIN calls :
          i < j =>
              /\ PosOf(calls[i].path) <= PosOf(calls[j].path)
              /\ calls[i].path = calls[j].path =>
                    \/ Rank(calls[i].op) < Rank(calls[j].op)
                    \/ calls[i].op = "delete" /\ calls[j].op = "delete"
              /\ calls[i].path # calls[j].path =>
                    \E k \in CallsOf(calls[i].path, "get_record") :
                        /\ k < j
                        /\ calls[k].ok
                        /\ Truthy(calls[k].arg) => state[calls[i].path] = calls[k].arg
    /\ \A p \in CandidateSet :
          LET first == CHOOSE i \in CallsFor(p) : \A j \in CallsFor(p) : i <= j
          IN  /\ CallsFor(p) # {} =>
                    calls[first].op = IF Truthy(Loaded(p)) THEN "search" ELSE "create"
              /\ "get_record" \in OpsOf(p) => "publish" \in OpsOf(p)
              /\ "publish" \in OpsOf(p) => "upload" \in OpsOf(p)
              /\ "upload" \in OpsOf(p) =>
                    ("create" \in OpsOf(p) \/ "put_metadata" \in OpsOf(p))
              /\ "put_metadata" \in OpsOf(p) => "get_draft" \in OpsOf(p)
              /\ "get_draft" \in OpsOf(p) => "newversion" \in OpsOf(p)
              /\ "newversion" \in OpsOf(p) => SearchHit(p)
              /\ ("create" \in OpsOf(p) /\ Truthy(Loaded(p))) => SearchMiss(p)

\* C13 witness: a completed run took the new-version path, with a delete,
\* for the first file and the fallback for the second
C13_Witness ==
    /\ pc = "done"
    /\ OpsOf(Candidates[1]) = {"search", "newversion", "get_draft", "put_metadata",
                               "delete", "upload", "publish", "get_record"}
    /\ OpsOf(Candidates[2]) = {"search", "create", "upload", "publish", "get_record"}


\* the deposit of path p was published by a successful request of this run
PublishSucceeded(p) == \E i \in CallsOf(p, "publish") : calls[i].ok

\* C14: within a run, after the load, the in-memory entry of a path changes
\* only in the step that follows the successful publish of that path's
\* deposit in the current iteration (not at create, new version or upload),
\* and the state document is written at most once, in the step after the
\* record of the last candidate was fetched.
C14_StateAfterPublishSavedOnceAtEnd ==
    [][(run' = run /\ pc # "main") =>
          /\ \A p \in StatePaths :
                state'[p] # state[p] =>
                    /\ pc = "get_record"
                    /\ p = RelPath
                    /\ PublishSucceeded(p)
                    /\ calls[Len(calls)].op = "publish"
                    /\ calls[Len(calls)].path = p
          /\ (disk' # disk \/ saves' # saves) =>
                /\ pc = "for"
                /\ saves = 0
                /\ saves' = 1
                /\ idx > Len(Candidates)
                /\ \A p \in CandidateSet :
                      \E i \in CallsOf(p, "get_record") : calls[i].ok
                /\ calls' = calls]_vars

\* C14 witness: the first file's entry was changed in memory after its
\* publish while the document is not written yet
C14_Witness ==
    /\ pc = "for"
    /\ idx = 2
    /\ changed
    /\ saves = 0
    /\ PublishSucceeded(Candidates[1])
    /\ state[Candidates[1]] # Loaded(Candidates[1])
    /\ disk[Candidates[1]] # state[Candidates[1]]


\* the requests that act on the deposit of an iteration
DraftOps == {"put_metadata", "delete", "upload", "publish"}

\* C15: the metadata update, the deletes and the upload of upload_file, and
\* the publish action of an iteration all address one deposit: the one the
\* create request of that iteration returned, or the one behind latest_draft
\* of the answer to that iteration's newversion request; on the new-version
\* path that deposit is never the published record the newversion request
\* was sent to, and it is an unpublished draft while it is being addressed.
C15_RequestsTargetTheIterationsDraft ==
    /\ \A i \in DOMAIN calls :
          calls[i].op \in DraftOps =>
              LET p == calls[i].path
              IN  \/ \E c \in CallsOf(p, "create") :
                        /\ c < i
                        /\ calls[c].ok
                        /\ calls[i].dep = calls[c].dep
                        /\ CallsOf(p, "newversion") = {}
                  \/ \E n \in CallsOf(p, "newversion") :
                        /\ n < i
                        /\ calls[n].ok
                        /\ calls[i].dep = calls[n].arg
                        /\ calls[i].dep # calls[n].dep
                        /\ CallsOf(p, "create") = {}
    /\ pc = "put_metadata" =>
          /\ dep_id # latest
          /\ ~deps[dep_id].published
    /\ (pc \in {"upload", "publish"} /\ Truthy(latest)) =>
          /\ deposition.id # latest
          /\ deps[latest].published
    /\ pc \in {"upload", "publish"} => ~deps[deposition.id].published

\* C15 witness: on the new-version path the metadata update and the upload
\* went to the draft and the publish action is about to
C15_Witness ==
    /\ pc = "publish"
    /\ Truthy(latest)
    /\ deps[latest].published
    /\ CallsOf(RelPath, "put_metadata") # {}
    /\ \E i \in CallsOf(RelPath, "upload") : calls[i].ok /\ calls[i].dep # latest


\* the places of a run after the three documents were loaded
AfterLoad == pc \notin {"idle", "main", "exit", "crashed"}

\* the metadata of the current iteration was built
MetadataBuilt == AfterLoad /\ metadata # NoMetadata

\* the override zenodo.files.json holds for path p
OwnOverride(p) == Get(ZenodoFilesJson, p, <<>>)

\* C17: through all the iterations of a run the base template and the
\* override mapping stay what was loaded from zenodo.json and
\* zenodo.files.json, and the title, description and keywords of the metadata
\* built for a file come from that file's own override, or else from the
\* template as loaded and the file's own name, never from another file.
C17_BuildLeavesInputsNoLeakAcrossFiles ==
    /\ AfterLoad =>
          /\ base_meta = zenodo_json
          /\ files_meta = ZenodoFilesJson
    /\ MetadataBuilt =>
          LET own == OwnOverride(RelPath)
          IN  /\ metadata["title"] =
                    IF "title" \in DOMAIN own THEN own["title"]
                    ELSE Get(zenodo_json, "title", <<>>) \o <<": ", Basename(RelPath)>>
              /\ metadata["description"] =
                    IF "description" \in DOMAIN own THEN own["description"]
                    ELSE Get(zenodo_json, "description", <<>>)
              /\ IF "keywords" \in DOMAIN own
                 THEN metadata["keywords"] = own["keywords"]
                 ELSE IF "keywords" \in DOMAIN zenodo_json
                      THEN metadata["keywords"] = zenodo_json["keywords"]
                      ELSE "keywords" \notin DOMAIN metadata
              /\ \A q \in CandidateSet \ {RelPath} :
                    \A k \in DOMAIN OwnOverride(q) :
                        k \in DOMAIN metadata => metadata[k] # OwnOverride(q)[k]

\* C17 witness: the metadata of the second file, which has no override, was
\* built after the metadata of the first file, which has one
C17_Witness ==
    /\ MetadataBuilt
    /\ idx = 2
    /\ DOMAIN OwnOverride(Candidates[1]) = {"title", "keywords"}
    /\ DOMAIN OwnOverride(RelPath) = {}
    /\ metadata["title"] = <<"Report", ": ", "b.pdf">>
    /\ "keywords" \notin DOMAIN metadata
    /\ \E i \in CallsOf(Candidates[1], "publish") : calls[i].ok


\* C19: once the run has rewritten the state document, the entry of every
\* path that is not a candidate, and of every candidate whose published
\* record carried the recorded concept identifier (or none), is what the run
\* loaded; exactly the entries of the candidates whose concept identifier
\* changed differ, and they hold the new identifier.
C19_RewriteKeepsOtherEntries ==
    saves = 1 =>
        \A p \in StatePaths :
            IF p \in CandidateSet /\ OutcomeChanged(p)
            THEN /\ disk[p] # diskAtStart[p]
                 /\ PublishedAs(p, disk[p])
            ELSE disk[p] = diskAtStart[p]

\* C19 witness: a rewritten document in which the entry of a path outside
\* the run and the entry of a candidate published under its recorded concept
\* are as loaded, next to a changed one
C19_Witness ==
    /\ saves = 1
    /\ Truthy(diskAtStart["out/old.pdf"])
    /\ disk["out/old.pdf"] = diskAtStart["out/old.pdf"]
    /\ \E p, q \in CandidateSet :
         /\ OutcomeChanged(p)
         /\ disk[p] # diskAtStart[p]
         /\ Truthy(Loaded(q))
         /\ PublishedAs(q, Loaded(q))
         /\ disk[q] = diskAtStart[q]


\* the deposits this run sent a successful publish action to for path p
PublishedNow(p) == {calls[i].dep : i \in {j \in CallsOf(p, "publish") : calls[j].ok}}

\* the concepts p was published under by an earlier run, whose records are
\* still on the service
Orphans(p) ==
    {c \in lineages[p] :
        \E j \in DOMAIN deps \ PublishedNow(p) :
            deps[j].published /\ deps[j].concept = c}

\* C18: when a run is aborted after the deposit of a file without recorded
\* concept identifier was published, the record stays published on the
\* service and the state document is unwritten, still without an identifier
\* for the file; and a run that finds no identifier for a file an earlier run
\* published creates a deposit for it again (no lookup, no new version),
\* under a concept other than the earlier ones, so that the file ends up
\* published under two unrelated concepts.
C18_AbortAfterPublishDuplicatesConcept ==
    \A p \in CandidateSet :
        (loads > 0 /\ ~Truthy(Loaded(p))) =>
            /\ (pc = "aborted" /\ PublishedNow(p) # {}) =>
                  /\ \A d \in PublishedNow(p) : deps[d].published
                  /\ saves = 0
                  /\ disk[p] = diskAtStart[p]
                  /\ ~Truthy(RecordedConcept(disk, p))
            /\ Orphans(p) # {} =>
                  /\ CallsOf(p, "search") = {}
                  /\ CallsOf(p, "newversion") = {}
                  /\ PathTaken(p) => CallsOf(p, "create") # {}
                  /\ \A i \in CallsOf(p, "create") :
                        calls[i].ok => calls[i].arg \notin Orphans(p)
                  /\ \A i \in CallsOf(p, "get_record") :
                        (calls[i].ok /\ Truthy(calls[i].arg)) =>
                            /\ calls[i].arg \notin Orphans(p)
                            /\ Orphans(p) \cup {calls[i].arg} \subseteq lineages[p]
                            /\ Cardinality(lineages[p]) >= 2

\* C18 witness: the second run has published again, under a second concept,
\* a file the aborted first run had published without recording it
C18_Witness ==
    /\ run = 2
    /\ \E p \in CandidateSet :
         /\ ~Truthy(Loaded(p))
         /\ Orphans(p) # {}
         /\ \E i \in CallsOf(p, "create") : calls[i].ok
         /\ \E c \in lineages[p] \ Orphans(p) : PublishedAs(p, c)
         /\ Cardinality(lineages[p]) = 2

============================================================================
